---------------------------- MODULE Spec2Model ----------------------------
(***************************************************************************)
(* One run of pve_backup_sync_to_nas/main.py: main() drives a NASBackup    *)
(* object through wake, readiness polling (wait_for_online), session open, *)
(* rsync, size probe and shutdown, then the finally block (close_ssh,      *)
(* notification, sys.exit).                                                *)
(*                                                                         *)
(* Time is an integer number of seconds.  time.sleep(n) advances the clock *)
(* by exactly n, a liveness probe advances it by its own duration (0 up to  *)
(* its timeout), a session probe by its timeout, and every other statement *)
(* takes no time.                                                          *)
(*                                                                         *)
(* A user interrupt (KeyboardInterrupt) can arrive at any statement of the *)
(* try body of main() (lines 436-473); the handlers and the finally block  *)
(* are modelled as running undisturbed.                                    *)
(***************************************************************************)
EXTENDS Integers, Sequences, FiniteSets, TLC

\* ---------------------------------------------------------------- bounds
MaxWaitTime == 2              \* nas.max_wait_time ranges over 0..MaxWaitTime
MaxPingInterval == 2          \* nas.ping_interval ranges over 1..MaxPingInterval
MaxSshReadyWait == 1          \* nas.ssh_ready_wait ranges over 0..MaxSshReadyWait
\* calls of each method an API client makes on one NASBackup object
MaxApiCalls == 3

\* ------------------------------------------------------ program constants
PingProbeTimeout == 1         \* ping_host(timeout=1)
SshProbeTimeout == 5          \* check_ssh_ready(timeout=5)
MaxSshRetries == 10           \* while retry_count < 10
SshRetryPause == 5            \* time.sleep(5)

\* error messages of main() and the values of Optional fields
None == "None"
MsgWol == "Failed to send WOL packet"
MsgOnline == "NAS failed to come online"
MsgConnect == "Failed to establish SSH connection"
MsgBackup == "Backup failed"
MsgInterruptMutGeneric == MsgBackup
MsgInterrupt == "User interrupted"

\* log line of rsync_backup for a missing source directory (logged, not raised)
LogSourceMissing == "Source directory does not exist"

VARIABLES
    config,        \* the loaded Config: nas.* wait settings, ssh_key, notification.*
    pc,            \* position of main() / of the method it is executing
    now,           \* time.time()
    wfo_start,     \* start_time of wait_for_online
    retry_count,   \* retry_count of wait_for_online
    verdict,       \* how wait_for_online returned: None, "ready" (True),
                   \* "timeout_ping" or "timeout_session" (False)
    wfo,           \* history of wait_for_online: probes, pauses and instants
    ssh_client,    \* NASBackup.ssh_client: None or "client"
    rsync,         \* rsync_backup: calls, subprocess launches, env, result, log
    success,       \* main(): success
    error_msg,     \* main(): error_msg
    file_size,     \* main(): file_size
    exc,           \* the exception in flight to main()'s handlers
    calls,         \* how many times each external operation was performed
    trace,         \* the phases entered so far, in order
    interruptedAt, \* pc at which the user interrupt arrived, or None
    failedPhase,   \* the phase whose method returned False to main(), or None
    shutdownOutcome, \* shutdown_nas: None, "sent", "dropped", "no_client", "error"
    exit_code      \* the statuses given to sys.exit, in order

wfoVars == <<wfo_start, retry_count, verdict, wfo>>
outVars == <<success, error_msg, file_size>>
histVars == <<interruptedAt, shutdownOutcome>>

vars == <<config, pc, now, wfoVars, ssh_client, rsync, outVars, exc, calls,
          trace, histVars, failedPhase, exit_code>>

\* Optional[str] settings: None, the empty string, or a non-empty value
Truthy(v) == v \notin {None, ""}

\* values of nas.ssh_port: the default and another one
SshPorts == {22, 2222}

\* Config with the wait settings and the notification settings ranging over
\* their values, ssh_key and ssh_port at their defaults (None, 22)
Configs ==
    [max_wait_time : 0..MaxWaitTime,
     ping_interval : 1..MaxPingInterval,
     ssh_ready_wait : 0..MaxSshReadyWait,
     ssh_key : {None},
     ssh_port : {22},
     enabled : BOOLEAN,
     discord_webhook : {None, "", "url"},
     on_success : BOOLEAN,
     on_failure : BOOLEAN]

\* Config with ssh_key and ssh_port ranging over their values, the wait
\* settings at their largest and smallest, notification at its defaults
\* (disabled)
ConfigsRsync ==
    [max_wait_time : {MaxWaitTime},
     ping_interval : {1},
     ssh_ready_wait : {0, MaxSshReadyWait},
     ssh_key : {None, "key"},
     ssh_port : SshPorts,
     enabled : {FALSE},
     discord_webhook : {None},
     on_success : {TRUE},
     on_failure : {TRUE}]

\* NASBackup.__init__ (ssh_client = None) and the locals of main() before the
\* try block
InitObject ==
    /\ now = 0
    /\ wfo_start = 0
    /\ retry_count = 0
    /\ verdict = None
    /\ wfo = [pings |-> 0, pingOk |-> FALSE, pingOkAt |-> 0, pingOkElapsed |-> 0,
              latePing |-> FALSE, pingAfterOk |-> FALSE, sleeps |-> 0,
              settles |-> 0, sshProbes |-> 0, sshOk |-> FALSE, firstSshAt |-> 0,
              sshBeforePing |-> FALSE, sshAfterOk |-> FALSE, pauses |-> 0,
              elapsed |-> 0]
    /\ ssh_client = None
    /\ rsync = [calls |-> 0, launched |-> 0, rsh |-> <<>>, ok |-> FALSE,
                keyExists |-> FALSE,
                sourceMissing |-> FALSE, log |-> None]
    /\ success = FALSE
    /\ error_msg = None
    /\ file_size = None
    /\ exc = None
    /\ calls = [wol |-> 0, connect |-> 0, shutdown |-> 0, warn |-> 0,
                close_ssh |-> 0, client_close |-> 0, notify |-> 0, post |-> 0,
                post_failed |-> 0]
    /\ trace = <<>>
    /\ interruptedAt = None
    /\ failedPhase = None
    /\ shutdownOutcome = None
    /\ exit_code = <<>>

\* main() is about to enter its try block
Init ==
    /\ config \in Configs
    /\ InitObject
    /\ pc = "wake"

\* the same with the key and port settings ranging
InitRsync ==
    /\ config \in ConfigsRsync
    /\ InitObject
    /\ pc = "wake"

\* ------------------------------------------------------------- Step 1: wake
AfterWolMutNoGate(sent) == "wfo_enter"
\* main(): if not backup.send_wol(): raise Exception(...)
AfterWol(sent) == IF sent THEN "wfo_enter" ELSE "except_exception"

\* send_wol(): send_magic_packet either returns or raises (caught, False)
SendWol ==
    /\ pc = "wake"
    /\ trace' = Append(trace, "wake")
    /\ calls' = [calls EXCEPT !.wol = @ + 1]
    /\ \E sent \in BOOLEAN :
         /\ pc' = AfterWol(sent)
         /\ exc' = IF sent THEN exc ELSE MsgWol
         /\ failedPhase' = IF sent THEN failedPhase ELSE "wake"
    /\ UNCHANGED <<config, now, wfoVars, ssh_client, rsync, outVars, histVars,
                   exit_code>>

\* ------------------------------------------- Step 2: wait_for_online
\* wait_for_online(): start_time = time.time()
WfoEnter ==
    /\ pc = "wfo_enter"
    /\ trace' = Append(trace, "readiness")
    /\ wfo_start' = now
    /\ pc' = "ping_check"
    /\ UNCHANGED <<config, now, retry_count, verdict, wfo, ssh_client, rsync,
                   outVars, exc, calls, histVars, failedPhase, exit_code>>

PingLoopCondMutLe(elapsed, max_wait) == elapsed <= max_wait
\* Phase 1 loop condition: while time.time() - start_time < max_wait
PingLoopCond(elapsed, max_wait) == elapsed < max_wait

\* one iteration of the phase 1 loop up to the probe's result: ping_host()
\* takes d seconds and answers or not; an answer breaks out of the loop
PingProbe ==
    /\ pc = "ping_check"
    /\ PingLoopCond(now - wfo_start, config.max_wait_time)
    /\ \E d \in 0..PingProbeTimeout, up \in BOOLEAN :
         /\ now' = now + d
         /\ wfo' = [wfo EXCEPT
                      !.pings = @ + 1,
                      !.latePing = @ \/ ~(now - wfo_start < config.max_wait_time),
                      !.pingAfterOk = @ \/ wfo.pingOk,
                      !.pingOk = @ \/ up,
                      !.pingOkAt = IF up THEN now + d ELSE @,
                      !.pingOkElapsed = IF up THEN now - wfo_start ELSE @]
         /\ pc' = IF up THEN "settle" ELSE "ping_sleep"
    /\ UNCHANGED <<config, wfo_start, retry_count, verdict, ssh_client, rsync,
                   outVars, exc, calls, trace, histVars, failedPhase, exit_code>>

PingSleepForMutTwice(interval) == interval + interval
\* the pause of phase 1: time.sleep(check_interval)
PingSleepFor(interval) == interval

\* time.sleep(check_interval) after a probe that got no answer
PingSleep ==
    /\ pc = "ping_sleep"
    /\ now' = now + PingSleepFor(config.ping_interval)
    /\ wfo' = [wfo EXCEPT !.sleeps = @ + 1]
    /\ pc' = "ping_check"
    /\ UNCHANGED <<config, wfo_start, retry_count, verdict, ssh_client, rsync,
                   outVars, exc, calls, trace, histVars, failedPhase, exit_code>>

AfterReadinessMutNoGate(ready) == "connect"
\* main(): if not backup.wait_for_online(): raise Exception(...)
AfterReadiness(ready) == IF ready THEN "connect" ELSE "except_exception"

\* the while-else branch of phase 1: the loop condition is false, return False
PingTimeout ==
    /\ pc = "ping_check"
    /\ ~PingLoopCond(now - wfo_start, config.max_wait_time)
    /\ verdict' = "timeout_ping"
    /\ wfo' = [wfo EXCEPT !.elapsed = now - wfo_start]
    /\ pc' = AfterReadiness(FALSE)
    /\ exc' = MsgOnline
    /\ failedPhase' = "readiness"
    /\ UNCHANGED <<config, now, wfo_start, retry_count, ssh_client, rsync,
                   outVars, calls, trace, histVars, exit_code>>

SettleForMutNone(ssh_wait) == 0
\* the settle delay of phase 2: time.sleep(ssh_wait)
SettleFor(ssh_wait) == ssh_wait

\* Phase 2 start: time.sleep(ssh_wait); retry_count = 0
Settle ==
    /\ pc = "settle"
    /\ now' = now + SettleFor(config.ssh_ready_wait)
    /\ wfo' = [wfo EXCEPT !.settles = @ + 1]
    /\ retry_count' = 0
    /\ pc' = "ssh_check"
    /\ UNCHANGED <<config, wfo_start, verdict, ssh_client, rsync, outVars, exc,
                   calls, trace, histVars, failedPhase, exit_code>>

SshLoopCondMutLe(rc) == rc <= MaxSshRetries
\* Phase 2 loop condition: while retry_count < 10
SshLoopCond(rc) == rc < MaxSshRetries

\* one iteration of the phase 2 loop up to the probe's result:
\* check_ssh_ready() succeeds, which returns True at once, or fails, which
\* increments retry_count
SshProbe ==
    /\ pc = "ssh_check"
    /\ SshLoopCond(retry_count)
    /\ now' = now + SshProbeTimeout
    /\ \E ready \in BOOLEAN :
         /\ wfo' = [wfo EXCEPT
                      !.sshProbes = @ + 1,
                      !.firstSshAt = IF wfo.sshProbes = 0 THEN now ELSE @,
                      !.sshBeforePing = @ \/ ~wfo.pingOk,
                      !.sshAfterOk = @ \/ wfo.sshOk,
                      !.sshOk = @ \/ ready,
                      !.elapsed = IF ready THEN now' - wfo_start ELSE @]
         /\ IF ready
              THEN /\ verdict' = "ready"
                   /\ pc' = AfterReadiness(TRUE)
                   /\ UNCHANGED retry_count
              ELSE /\ retry_count' = retry_count + 1
                   /\ pc' = "ssh_sleep"
                   /\ UNCHANGED verdict
    /\ UNCHANGED <<config, wfo_start, ssh_client, rsync, outVars, exc, calls,
                   trace, histVars, failedPhase, exit_code>>

\* time.sleep(5) after a failed session probe
SshSleep ==
    /\ pc = "ssh_sleep"
    /\ now' = now + SshRetryPause
    /\ wfo' = [wfo EXCEPT !.pauses = @ + 1]
    /\ pc' = "ssh_check"
    /\ UNCHANGED <<config, wfo_start, retry_count, verdict, ssh_client, rsync,
                   outVars, exc, calls, trace, histVars, failedPhase, exit_code>>

\* the phase 2 loop condition is false: return False
SshExhausted ==
    /\ pc = "ssh_check"
    /\ ~SshLoopCond(retry_count)
    /\ verdict' = "timeout_session"
    /\ wfo' = [wfo EXCEPT !.elapsed = now - wfo_start]
    /\ pc' = AfterReadiness(FALSE)
    /\ exc' = MsgOnline
    /\ failedPhase' = "readiness"
    /\ UNCHANGED <<config, now, wfo_start, retry_count, ssh_client, rsync,
                   outVars, calls, trace, histVars, exit_code>>

\* ------------------------------------------------------- session open
\* connect_ssh(): self.ssh_client = paramiko.SSHClient() (line 276)
ConnectEnter ==
    /\ pc = "connect"
    /\ trace' = Append(trace, "session_open")
    /\ ssh_client' = "client"
    /\ pc' = "connect_dial"
    /\ UNCHANGED <<config, now, wfoVars, rsync, outVars, exc, calls, histVars,
                   failedPhase, exit_code>>

\* main(): if not backup.connect_ssh(): raise Exception(...)
AfterConnect(connected) == IF connected THEN "sync" ELSE "except_exception"

ClientAfterDialMutReset(client, connected) == IF connected THEN client ELSE None
\* connect_ssh(): the except branch (lines 294-296) leaves self.ssh_client as
\* line 276 set it
ClientAfterDial(client, connected) == client

\* connect_ssh(): self.ssh_client.connect(...) returns or raises (caught, False)
ConnectDial ==
    /\ pc = "connect_dial"
    /\ calls' = [calls EXCEPT !.connect = @ + 1]
    /\ \E connected \in BOOLEAN :
         /\ pc' = AfterConnect(connected)
         /\ exc' = IF connected THEN exc ELSE MsgConnect
         /\ failedPhase' = IF connected THEN failedPhase ELSE "session_open"
         /\ ssh_client' = ClientAfterDial(ssh_client, connected)
    /\ UNCHANGED <<config, now, wfoVars, rsync, outVars, trace, histVars,
                   exit_code>>

\* ------------------------------------------------- Step 3: rsync_backup
\* rsync_backup(): the words of RSYNC_RSH in the environment of the rsync
\* process, f"/usr/bin/ssh -i {self.ssh_key} -p {self.ssh_port}", set when
\* self.ssh_key and self.ssh_key.exists(); <<>> when env is None
RsyncRsh(ssh_key, key_exists, ssh_port) ==
    IF Truthy(ssh_key) /\ key_exists
      THEN <<"/usr/bin/ssh", "-i", ssh_key, "-p", ssh_port>>
      ELSE <<>>

AfterSyncMutNoGate(synced) == "size"
AfterSyncMutRetry(synced) == IF synced THEN "size" ELSE "sync"
\* main(): if not backup.rsync_backup(): raise Exception("Backup failed")
AfterSync(synced) == IF synced THEN "size" ELSE "except_exception"

\* rsync_backup(): if not Path(source_dir).exists(): log, return False
SourceCheck(source_exists) == source_exists

\* rsync_backup() up to the built command: the source directory and, when a
\* key is configured, the key file are looked up on disk at this moment
RsyncEnter ==
    /\ pc = "sync"
    /\ trace' = Append(trace, "sync")
    /\ \E source_exists \in BOOLEAN,
          key_exists \in (IF Truthy(config.ssh_key) THEN BOOLEAN ELSE {FALSE}) :
         IF SourceCheck(source_exists)
           THEN /\ rsync' = [rsync EXCEPT
                               !.calls = @ + 1,
                               !.sourceMissing = ~source_exists,
                               !.keyExists = key_exists,
                               !.rsh = RsyncRsh(config.ssh_key, key_exists,
                                                config.ssh_port)]
                /\ pc' = "rsync_launch"
                /\ UNCHANGED <<exc, failedPhase>>
           ELSE /\ rsync' = [rsync EXCEPT
                               !.calls = @ + 1,
                               !.sourceMissing = TRUE,
                               !.log = LogSourceMissing]
                /\ pc' = AfterSync(FALSE)
                /\ exc' = MsgBackup
                /\ failedPhase' = "sync"
    /\ UNCHANGED <<config, now, wfoVars, ssh_client, outVars, calls, histVars,
                   exit_code>>

\* rsync_backup(): subprocess.Popen(cmd, env=env) starts the process or raises
\* (caught, return False)
RsyncLaunch ==
    /\ pc = "rsync_launch"
    /\ \E started \in BOOLEAN :
         IF started
           THEN /\ rsync' = [rsync EXCEPT !.launched = @ + 1]
                /\ pc' = "rsync_wait"
                /\ UNCHANGED <<exc, failedPhase>>
           ELSE /\ rsync' = [rsync EXCEPT !.log = "Rsync execution exception"]
                /\ pc' = AfterSync(FALSE)
                /\ exc' = MsgBackup
                /\ failedPhase' = "sync"
    /\ UNCHANGED <<config, now, wfoVars, ssh_client, outVars, calls, trace,
                   histVars, exit_code>>

\* rsync_backup(): process.wait(); return code 0 is True, anything else False
RsyncWait ==
    /\ pc = "rsync_wait"
    /\ \E zero \in BOOLEAN :
         /\ rsync' = [rsync EXCEPT !.ok = zero,
                                   !.log = IF zero THEN @ ELSE "Rsync failed"]
         /\ pc' = AfterSync(zero)
         /\ exc' = IF zero THEN exc ELSE MsgBackup
         /\ failedPhase' = IF zero THEN failedPhase ELSE "sync"
    /\ UNCHANGED <<config, now, wfoVars, ssh_client, outVars, calls, trace,
                   histVars, exit_code>>

\* ---------------------------------------------------------- size probe
\* file_size = get_directory_size(...): du's first field, or "Unknown"
SizeProbe ==
    /\ pc = "size"
    /\ trace' = Append(trace, "size_probe")
    /\ file_size' \in {"12G", "Unknown"}
    /\ pc' = "shutdown"
    /\ UNCHANGED <<config, now, wfoVars, ssh_client, rsync, success, error_msg,
                   exc, calls, histVars, failedPhase, exit_code>>

\* ------------------------------------------------- Step 4: shutdown_nas
\* shutdown_nas() is entered
ShutdownEnter ==
    /\ pc = "shutdown"
    /\ trace' = Append(trace, "shutdown")
    /\ pc' = "shutdown_exec"
    /\ UNCHANGED <<config, now, wfoVars, ssh_client, rsync, outVars, exc, calls,
                   histVars, failedPhase, exit_code>>

ShutdownReturnMutDropFails(outcome) == outcome = "sent"
\* shutdown_nas(): True when exec_command returned ("sent") and when it raised
\* ("dropped", lines 389-393); False without a client ("no_client") and from
\* the outer handler ("error", lines 398-400)
ShutdownReturn(outcome) == outcome \in {"sent", "dropped"}

AfterShutdownMutRaise(ret) == IF ret THEN "set_success" ELSE "except_exception"
\* main(): if not backup.shutdown_nas(): logging.warning(...), and go on
AfterShutdown(ret) == "set_success"

\* shutdown_nas() from its first statement: with a client exec_command is
\* issued and returns or raises; without one nothing is sent; an exception
\* outside the inner try is caught by the outer handler before anything is
\* sent.  main() logs a warning when False comes back.
ShutdownExec ==
    /\ pc = "shutdown_exec"
    /\ \E outcome \in (IF ssh_client # None THEN {"sent", "dropped", "error"}
                                            ELSE {"no_client", "error"}) :
         /\ shutdownOutcome' = outcome
         /\ calls' = [calls EXCEPT
                        !.shutdown = IF outcome \in {"sent", "dropped"}
                                       THEN @ + 1 ELSE @,
                        !.warn = IF ShutdownReturn(outcome) THEN @ ELSE @ + 1]
         /\ pc' = AfterShutdown(ShutdownReturn(outcome))
    /\ UNCHANGED <<config, now, wfoVars, ssh_client, rsync, outVars, exc, trace,
                   interruptedAt, failedPhase, exit_code>>

\* main(): success = True (line 470)
SetSuccess ==
    /\ pc = "set_success"
    /\ success' = TRUE
    /\ pc' = "success_log"
    /\ UNCHANGED <<config, now, wfoVars, ssh_client, rsync, error_msg, file_size,
                   exc, calls, trace, histVars, failedPhase, exit_code>>

\* main(): the closing banner (lines 471-473), end of the try body
SuccessLog ==
    /\ pc = "success_log"
    /\ pc' = "finally"
    /\ UNCHANGED <<config, now, wfoVars, ssh_client, rsync, outVars, exc, calls,
                   trace, histVars, failedPhase, exit_code>>

\* ------------------------------------------------------------- handlers
\* the positions of the try body of main()
TryBody ==
    {"wake", "wfo_enter", "ping_check", "ping_sleep", "settle", "ssh_check",
     "ssh_sleep", "connect", "connect_dial", "sync", "rsync_launch",
     "rsync_wait", "size", "shutdown", "shutdown_exec", "set_success",
     "success_log"}

\* KeyboardInterrupt raised at the current statement of the try body
Interrupt ==
    /\ pc \in TryBody
    /\ interruptedAt' = pc
    /\ pc' = "except_interrupt"
    /\ UNCHANGED <<config, now, wfoVars, ssh_client, rsync, outVars, exc, calls,
                   trace, shutdownOutcome, failedPhase, exit_code>>

AfterHandlerMutSkipClose == "notify"
\* where a handler of main() continues: the finally block
AfterHandler == "finally"

\* except KeyboardInterrupt: error_msg = "User interrupted"
HandleInterrupt ==
    /\ pc = "except_interrupt"
    /\ error_msg' = MsgInterrupt
    /\ pc' = AfterHandler
    /\ UNCHANGED <<config, now, wfoVars, ssh_client, rsync, success, file_size,
                   exc, calls, trace, histVars, failedPhase, exit_code>>

\* except Exception as e: error_msg = str(e)
HandleException ==
    /\ pc = "except_exception"
    /\ error_msg' = exc
    /\ pc' = AfterHandler
    /\ UNCHANGED <<config, now, wfoVars, ssh_client, rsync, success, file_size,
                   exc, calls, trace, histVars, failedPhase, exit_code>>

\* -------------------------------------------------------------- finally
CloseCallsClientMutNoGuard(client) == TRUE
\* close_ssh(): if self.ssh_client:
CloseCallsClient(client) == client # None

\* close_ssh(): the client's close() is called if self.ssh_client is set, and
\* self.ssh_client is left as it is
CloseSshBody ==
    /\ calls' = [calls EXCEPT
                   !.close_ssh = @ + 1,
                   !.client_close = IF CloseCallsClient(ssh_client)
                                      THEN @ + 1 ELSE @]
    /\ UNCHANGED ssh_client

\* finally: backup.close_ssh()
CloseSsh ==
    /\ pc = "finally"
    /\ trace' = Append(trace, "cleanup")
    /\ CloseSshBody
    /\ pc' = "notify"
    /\ UNCHANGED <<config, now, wfoVars, rsync, outVars, exc, histVars,
                   failedPhase, exit_code>>

ShouldNotifyMutIgnoreToggles(ok, on_success, on_failure) == TRUE
\* main(): should_notify (lines 495-497)
ShouldNotify(ok, on_success, on_failure) ==
    (ok /\ on_success) \/ (~ok /\ on_failure)

\* main(): "and config.notification.discord_webhook" (line 499) and
\* send_discord_notification(): "if not webhook_url: return" (line 106)
WebhookSet(webhook) == Truthy(webhook)

AfterNotifyMutRaise(delivered) == IF delivered THEN "exit" ELSE "crashed"
\* send_discord_notification(): a failed delivery is caught and logged (lines
\* 141-142) and main() goes on to sys.exit
AfterNotify(delivered) == "exit"

\* the notification decision; inside send_discord_notification requests.post
\* is called once; it is delivered, or it raises or answers non-2xx
Notify ==
    /\ pc = "notify"
    /\ trace' = Append(trace, "notify")
    /\ IF /\ config.enabled
          /\ ShouldNotify(success, config.on_success, config.on_failure)
          /\ WebhookSet(config.discord_webhook)
         THEN \E delivered \in BOOLEAN :
                /\ calls' = [calls EXCEPT
                               !.notify = @ + 1,
                               !.post = @ + 1,
                               !.post_failed = IF delivered THEN @ ELSE @ + 1]
                /\ pc' = AfterNotify(delivered)
         ELSE /\ UNCHANGED calls
              /\ pc' = AfterNotify(TRUE)
    /\ UNCHANGED <<config, now, wfoVars, ssh_client, rsync, outVars, exc,
                   histVars, failedPhase, exit_code>>

ExitStatusMutZero(ok) == 0
\* sys.exit(0 if success else 1)
ExitStatus(ok) == IF ok THEN 0 ELSE 1

Exit ==
    /\ pc = "exit"
    /\ trace' = Append(trace, "exit")
    /\ exit_code' = Append(exit_code, ExitStatus(success))
    /\ pc' = "done"
    /\ UNCHANGED <<config, now, wfoVars, ssh_client, rsync, outVars, exc, calls,
                   histVars, failedPhase>>

Next ==
    \/ SendWol
    \/ WfoEnter
    \/ PingProbe
    \/ PingSleep
    \/ PingTimeout
    \/ Settle
    \/ SshProbe
    \/ SshSleep
    \/ SshExhausted
    \/ ConnectEnter
    \/ ConnectDial
    \/ RsyncEnter
    \/ RsyncLaunch
    \/ RsyncWait
    \/ SizeProbe
    \/ ShutdownEnter
    \/ ShutdownExec
    \/ SetSuccess
    \/ SuccessLog
    \/ Interrupt
    \/ HandleInterrupt
    \/ HandleException
    \/ CloseSsh
    \/ Notify
    \/ Exit

Spec == Init /\ [][Next]_vars

\* a run of main() for every ssh_key / ssh_port setting
SpecRsync == InitRsync /\ [][Next]_vars

\* --------------------------------------- wait_for_online run to its verdict
\* the steps of main() up to the verdict of wait_for_online
NextWfo ==
    \/ SendWol
    \/ WfoEnter
    \/ PingProbe
    \/ PingSleep
    \/ PingTimeout
    \/ Settle
    \/ SshProbe
    \/ SshSleep
    \/ SshExhausted

\* every probe returns within its timeout and every sleep ends, so the thread
\* always takes its next step
SpecWfo == Init /\ [][NextWfo]_vars /\ WF_vars(NextWfo)

\* ------------------------------------------ NASBackup used as an object
\* a freshly constructed NASBackup whose methods a caller invokes directly
InitApi == config \in Configs /\ InitObject /\ pc = "api"

\* connect_ssh() as one call: self.ssh_client is assigned, then the dial
\* succeeds or fails
ApiConnect ==
    /\ pc = "api"
    /\ calls.connect < MaxApiCalls
    /\ trace' = Append(trace, "connect_ssh")
    /\ calls' = [calls EXCEPT !.connect = @ + 1]
    /\ \E connected \in BOOLEAN :
         ssh_client' = ClientAfterDial("client", connected)
    /\ UNCHANGED <<config, pc, now, wfoVars, rsync, outVars, exc, histVars,
                   failedPhase, exit_code>>

\* close_ssh() as one call
ApiClose ==
    /\ pc = "api"
    /\ calls.close_ssh < MaxApiCalls
    /\ trace' = Append(trace, "close_ssh")
    /\ CloseSshBody
    /\ UNCHANGED <<config, pc, now, wfoVars, rsync, outVars, exc, histVars,
                   failedPhase, exit_code>>

NextApi ==
    \/ ApiConnect
    \/ ApiClose

SpecApi == InitApi /\ [][NextApi]_vars

\* ======================================================== properties
\* the positions of the finally block and after it
AfterTry == {"finally", "notify", "exit", "done"}

\* C1: rsync_backup is entered, and its subprocess launched, only after
\* wait_for_online returned True in this run.
C1_SyncOnlyWhenReady ==
    (rsync.calls > 0 \/ rsync.launched > 0 \/ pc \in {"sync", "rsync_launch", "rsync_wait"})
        => verdict = "ready"

C1_Witness == rsync.launched = 1 /\ verdict = "ready" /\ pc = "rsync_wait"

\* C2: on every exit path close_ssh is called exactly once: not before the
\* finally block, once from there on, and the client itself is never closed
\* twice.
C2_CloseOnce ==
    /\ pc \notin {"notify", "exit", "done"} => calls.close_ssh = 0
    /\ pc \in {"notify", "exit", "done"} => calls.close_ssh = 1
    /\ calls.client_close <= 1

C2_Witness ==
    /\ pc = "done"
    /\ calls.close_ssh = 1
    /\ interruptedAt = "rsync_wait"

C2_WitnessFailure ==
    /\ pc = "done"
    /\ calls.close_ssh = 1
    /\ failedPhase = "session_open"

\* C3 as stated: a ping timeout comes with no session probe and at an elapsed
\* time t with max_wait_time <= t < max_wait_time + ping_interval.
C3_Original ==
    verdict = "timeout_ping" =>
        /\ wfo.sshProbes = 0
        /\ ~wfo.pingOk
        /\ config.max_wait_time <= wfo.elapsed
        /\ wfo.elapsed < config.max_wait_time + config.ping_interval

\* C3 amended: the last iteration starts below max_wait_time and then takes
\* the probe's own time (at most its 1 s timeout) plus ping_interval, so
\* max_wait_time <= t < max_wait_time + ping_interval + PingProbeTimeout.
C3_PingTimeoutWindow ==
    verdict = "timeout_ping" =>
        /\ wfo.sshProbes = 0
        /\ ~wfo.pingOk
        /\ config.max_wait_time <= wfo.elapsed
        /\ wfo.elapsed < config.max_wait_time + config.ping_interval + PingProbeTimeout

C3_Witness ==
    /\ verdict = "timeout_ping"
    /\ wfo.pings >= 2
    /\ wfo.elapsed >= config.max_wait_time + config.ping_interval

\* C4 as stated: first ping answered, every session probe failed: one settle
\* delay, exactly 10 probes, and only the 9 pauses that separate them.
C4_Original ==
    (verdict = "timeout_session" /\ wfo.pings = 1) =>
        /\ wfo.settles = 1
        /\ wfo.sshProbes = MaxSshRetries
        /\ wfo.pauses = MaxSshRetries - 1

\* C4 amended: one settle delay, exactly 10 probes, and a 5-second pause after
\* every failed probe, the tenth included (10 pauses).
C4_TenProbesTenPauses ==
    /\ wfo.sshProbes <= MaxSshRetries
    /\ (verdict = "timeout_session" /\ wfo.pings = 1) =>
        /\ wfo.settles = 1
        /\ wfo.sshProbes = MaxSshRetries
        /\ wfo.pauses = MaxSshRetries
        /\ ~wfo.sshOk
        /\ wfo.elapsed - (wfo.pingOkAt - wfo_start) = config.ssh_ready_wait
                                + MaxSshRetries * (SshProbeTimeout + SshRetryPause)

C4_Witness ==
    /\ verdict = "timeout_session"
    /\ wfo.pings = 1
    /\ wfo.pauses = MaxSshRetries
    /\ config.ssh_ready_wait > 0

\* C5: wait_for_online returns True exactly when a session probe succeeded,
\* which needs an earlier ping answered at an elapsed time below max_wait_time
\* and is one of at most 10 probes; no probe follows a successful one; False is
\* returned only on ping timeout (no ping answered) or after 10 failed probes.
C5_ReadyIff ==
    /\ (verdict = "ready") <=> wfo.sshOk
    /\ wfo.sshProbes > 0 =>
         /\ wfo.pingOk
         /\ wfo.pingOkElapsed < config.max_wait_time
         /\ wfo.sshProbes <= MaxSshRetries
    /\ ~wfo.sshAfterOk
    /\ wfo.sshOk => pc \notin {"ssh_check", "ssh_sleep"}
    /\ verdict = "timeout_ping" =>
         ~wfo.pingOk /\ wfo.sshProbes = 0 /\ wfo.elapsed >= config.max_wait_time
    /\ verdict = "timeout_session" =>
         wfo.pingOk /\ ~wfo.sshOk /\ wfo.sshProbes = MaxSshRetries
    /\ verdict \in {None, "ready", "timeout_ping", "timeout_session"}

C5_Witness ==
    /\ verdict = "ready"
    /\ wfo.pings >= 2
    /\ wfo.sshProbes = MaxSshRetries

\* C6: when send_wol fails no probe is made, wait_for_online is not entered,
\* no session is opened, no sync is started; error_msg is the wake message
\* and the exit status is 1.
C6_WakeFailure ==
    failedPhase = "wake" =>
        /\ wfo.pings = 0 /\ wfo.sshProbes = 0
        /\ trace \in {<<"wake">>, <<"wake", "cleanup">>,
                      <<"wake", "cleanup", "notify">>,
                      <<"wake", "cleanup", "notify", "exit">>}
        /\ ssh_client = None /\ calls.connect = 0
        /\ rsync.calls = 0 /\ rsync.launched = 0
        /\ ~success
        /\ pc \in AfterTry => error_msg = MsgWol
        /\ pc = "done" => exit_code = <<1>>

C6_Witness == failedPhase = "wake" /\ pc = "done" /\ exit_code = <<1>>

\* the fixed order of the phases of a run
PhaseOrder ==
    <<"wake", "readiness", "session_open", "sync", "size_probe", "shutdown",
      "cleanup", "notify", "exit">>

\* the position of each phase in PhaseOrder
PhaseIndexOf ==
    [ph \in {PhaseOrder[i] : i \in 1..Len(PhaseOrder)} |->
        CHOOSE i \in 1..Len(PhaseOrder) : PhaseOrder[i] = ph]

PhaseIndex(ph) == PhaseIndexOf[ph]

\* the phases of the try body that were entered, in order
TryPhases == SelectSeq(trace, LAMBDA ph : PhaseIndex(ph) <= 6)

\* C7: phases are entered in the fixed order, each at most once; a phase that
\* failed is the last phase of the try body that was entered; no shutdown
\* command is issued unless the sync succeeded; close_ssh, the notification
\* decision and exit follow in that order, and a run stops only after exit.
C7_PhaseOrder ==
    /\ \A i \in 1..(Len(trace) - 1) :
         PhaseIndex(trace[i]) < PhaseIndex(trace[i + 1])
    /\ TryPhases = SubSeq(PhaseOrder, 1, Len(TryPhases))
    /\ failedPhase # None =>
         /\ TryPhases = SubSeq(PhaseOrder, 1, PhaseIndex(failedPhase))
         /\ calls.shutdown = 0 /\ file_size = None
    /\ (calls.shutdown > 0 \/ "shutdown" \in {trace[i] : i \in 1..Len(trace)})
         => rsync.ok
    /\ pc = "notify" => SubSeq(trace, Len(trace), Len(trace)) = <<"cleanup">>
    /\ pc = "exit" => SubSeq(trace, Len(trace) - 1, Len(trace)) = <<"cleanup", "notify">>
    /\ pc = "done" =>
         SubSeq(trace, Len(trace) - 2, Len(trace)) = <<"cleanup", "notify", "exit">>
    /\ pc = "done" \/ ENABLED Next

C7_Witness ==
    /\ pc = "done"
    /\ failedPhase = "sync"
    /\ trace = <<"wake", "readiness", "session_open", "sync", "cleanup",
                 "notify", "exit">>

C7_WitnessFullRun == pc = "done" /\ trace = PhaseOrder

\* C8 as stated: at exit, success is true iff rsync_backup succeeded, also
\* when an interrupt arrived in some phase, and the status is 0 iff success.
C8_Original ==
    pc = "done" =>
        /\ success <=> rsync.ok
        /\ exit_code = <<IF success THEN 0 ELSE 1>>

\* C8 amended: at exit, success is true iff rsync_backup succeeded and no
\* interrupt arrived before "success = True" was executed (an interrupt in the
\* size probe or the shutdown phase leaves success false); the status is 0 iff
\* success, for every outcome of the size probe and of the shutdown.
C8_SuccessIffSyncUninterrupted ==
    /\ success => rsync.ok
    /\ pc = "done" =>
        /\ success <=> (rsync.ok /\ interruptedAt \in {None, "success_log"})
        /\ exit_code = <<IF success THEN 0 ELSE 1>>
    /\ pc # "done" => exit_code = <<>>

C8_Witness ==
    /\ pc = "done"
    /\ success /\ exit_code = <<0>>
    /\ file_size = "Unknown"
    /\ shutdownOutcome = "dropped"

C8_WitnessInterrupted ==
    /\ pc = "done"
    /\ rsync.ok /\ ~success /\ exit_code = <<1>>
    /\ interruptedAt = "shutdown_exec"

\* C9 as stated: the webhook is called iff notification.enabled and the
\* outcome matches the toggles, whatever the webhook setting.
C9_Original ==
    pc \in {"exit", "done"} =>
        (calls.post = 1 <=>
            /\ config.enabled
            /\ (success /\ config.on_success) \/ (~success /\ config.on_failure))

\* C9 amended: the webhook is called (once) iff notification.enabled, the
\* outcome matches the toggles and discord_webhook is set to a non-empty
\* value; it is never called otherwise nor before the notification phase.
C9_NotifyIff ==
    /\ calls.post <= 1
    /\ pc \notin {"exit", "done"} => calls.post = 0
    /\ pc \in {"exit", "done"} =>
        (calls.post = 1 <=>
            /\ config.enabled
            /\ (success /\ config.on_success) \/ (~success /\ config.on_failure)
            /\ config.discord_webhook \notin {None, ""})

C9_Witness ==
    /\ pc = "done"
    /\ config.enabled /\ ~config.on_failure /\ config.on_success
    /\ config.discord_webhook = "url"
    /\ ~success
    /\ calls.post = 0

C9_WitnessSent ==
    /\ pc = "done"
    /\ config.enabled /\ config.on_failure /\ ~config.on_success
    /\ ~success
    /\ calls.post = 1

\* the messages of the program that contain "does not exist"
ContainsDoesNotExist == {LogSourceMissing}

\* C10: a missing source directory fails the sync without launching rsync,
\* success is false, error_msg contains "does not exist", exit status 1.
C10_SourceMissing ==
    (rsync.sourceMissing /\ pc = "done") =>
        /\ rsync.launched = 0
        /\ ~success
        /\ error_msg \in ContainsDoesNotExist
        /\ exit_code = <<1>>

\* the positions of the phases wake, readiness polling, session open, sync,
\* size probe and shutdown, up to the assignment success = True
PhasePositions ==
    {"wake", "wfo_enter", "ping_check", "ping_sleep", "settle", "ssh_check",
     "ssh_sleep", "connect", "connect_dial", "sync", "rsync_launch",
     "rsync_wait", "size", "shutdown", "shutdown_exec", "set_success"}

\* C11: an interrupt arriving in any of the phases wake .. shutdown gives a
\* non-success outcome whose error_msg is "User interrupted", a message no
\* phase failure produces, and the run goes on through close_ssh, the
\* notification decision taken as for a failure, and exit status 1.
C11_InterruptOutcome ==
    /\ "User interrupted" \notin {MsgWol, MsgOnline, MsgConnect, MsgBackup}
    /\ interruptedAt \in PhasePositions =>
        /\ ~success
        /\ failedPhase = None
        /\ pc \in {"except_interrupt", "finally", "notify", "exit", "done"}
        /\ pc \in {"finally", "notify", "exit", "done"} => error_msg = "User interrupted"
        /\ pc \in {"notify", "exit", "done"} => calls.close_ssh = 1
        /\ pc \in {"exit", "done"} =>
             (calls.post = 1 <=> /\ config.enabled
                                 /\ config.on_failure
                                 /\ config.discord_webhook \notin {None, ""})
        /\ pc = "done" => exit_code = <<1>>
    /\ (failedPhase # None /\ pc \in {"finally", "notify", "exit", "done"})
         => error_msg \in {MsgWol, MsgOnline, MsgConnect, MsgBackup}

C11_Witness ==
    /\ interruptedAt = "ssh_sleep"
    /\ pc = "done"
    /\ error_msg = "User interrupted"
    /\ calls.post = 1
    /\ exit_code = <<1>>

C11_WitnessShutdown ==
    /\ interruptedAt = "shutdown_exec"
    /\ pc = "done"
    /\ rsync.ok
    /\ exit_code = <<1>>

\* C12: once the sync has succeeded and no interrupt arrives, the run ends
\* with success = true and exit status 0 whatever the shutdown phase did
\* (command sent, connection dropped while issuing it, shutdown_nas returning
\* False); a dropped connection is reported by shutdown_nas as success, so
\* main() logs no warning for it.
C12_ShutdownNeverFails ==
    /\ shutdownOutcome # None => rsync.ok /\ failedPhase = None
    /\ shutdownOutcome \in {"sent", "dropped"} => calls.warn = 0 /\ calls.shutdown = 1
    /\ shutdownOutcome \in {"no_client", "error"} => calls.warn = 1 /\ calls.shutdown = 0
    /\ (shutdownOutcome # None /\ interruptedAt = None) =>
        /\ pc \in {"set_success", "success_log", "finally", "notify", "exit", "done"}
        /\ pc \in {"success_log", "finally", "notify", "exit", "done"} => success
        /\ pc \in {"finally", "notify", "exit", "done"} => error_msg = None
        /\ pc = "done" => exit_code = <<0>>

C12_Witness ==
    /\ shutdownOutcome = "dropped"
    /\ pc = "done"
    /\ success /\ exit_code = <<0>>
    /\ calls.warn = 0

C12_WitnessFalse ==
    /\ shutdownOutcome = "error"
    /\ pc = "done"
    /\ success /\ exit_code = <<0>>
    /\ calls.warn = 1

\* C13: the wake packet, the session open, the sync (call and subprocess) and
\* the shutdown command each happen at most once in a run; only the liveness
\* probes and the session probes repeat, the latter at most 10 times.
C13_NoRetries ==
    /\ calls.wol <= 1
    /\ calls.connect <= 1
    /\ rsync.calls <= 1 /\ rsync.launched <= 1
    /\ calls.shutdown <= 1
    /\ wfo.settles <= 1
    /\ wfo.sshProbes <= MaxSshRetries
    /\ failedPhase = "sync" => pc \notin {"sync", "rsync_launch", "rsync_wait"}

C13_Witness ==
    /\ pc = "done"
    /\ failedPhase = "sync"
    /\ rsync.calls = 1 /\ rsync.launched = 1
    /\ wfo.pings >= 2
    /\ wfo.sshProbes >= 2

\* C14: whenever a private key is configured, whether or not the key file
\* exists on disk and for every ssh_port, the launched rsync has RSYNC_RSH set
\* with -i <key> -p <port>.
C14_RshWhenKeyConfigured ==
    (rsync.launched = 1 /\ Truthy(config.ssh_key)) =>
        rsync.rsh = <<"/usr/bin/ssh", "-i", config.ssh_key, "-p", config.ssh_port>>

\* close_ssh calls recorded in the trace after the first connect_ssh call
ClosesAfterConnect ==
    LET at == {i \in 1..Len(trace) : trace[i] = "connect_ssh"}
    IN  Cardinality({j \in 1..Len(trace) :
                       /\ trace[j] = "close_ssh"
                       /\ \E i \in at : i < j})

\* C15 as stated: close_ssh on a never-opened handle does nothing, and however
\* often close_ssh is called the underlying client is closed at most once.
C15_Original ==
    /\ calls.connect = 0 => (ssh_client = None /\ calls.client_close = 0)
    /\ calls.client_close <= 1

\* C15: close_ssh called when connect_ssh was never entered is a no-op (no
\* underlying close, ssh_client stays unset); once connect_ssh has been
\* entered, successfully or not, every close_ssh call invokes the underlying
\* client's close() again, because close_ssh never resets ssh_client: a second
\* close_ssh call is a second underlying close.
C15_CloseEveryCallOnceOpened ==
    /\ calls.connect = 0 => (ssh_client = None /\ calls.client_close = 0)
    /\ calls.connect > 0 => ssh_client # None
    /\ calls.client_close = ClosesAfterConnect

C15_Witness ==
    /\ trace = <<"connect_ssh", "close_ssh", "close_ssh">>
    /\ calls.client_close = 2

C15_WitnessNeverOpened ==
    /\ trace = <<"close_ssh", "close_ssh">>
    /\ calls.client_close = 0
    /\ ssh_client = None

\* C16: a webhook delivery that fails (request error or non-2xx answer) never
\* changes the run result: after the failed post the run is at sys.exit, which
\* can be taken, or past it; success is still what the try body made it, and
\* the exit status is 0 iff the run succeeded, as after a delivered post.
C16_DeliveryFailureHarmless ==
    calls.post_failed > 0 =>
        /\ calls.post = 1 /\ calls.post_failed = 1
        /\ pc \in {"exit", "done"}
        /\ pc = "exit" => ENABLED Exit
        /\ success <=> (rsync.ok /\ interruptedAt \in {None, "success_log"})
        /\ pc = "done" => exit_code = <<IF success THEN 0 ELSE 1>>

C16_Witness ==
    /\ calls.post_failed = 1
    /\ pc = "done"
    /\ success
    /\ exit_code = <<0>>

C16_WitnessFailedRun ==
    /\ calls.post_failed = 1
    /\ pc = "done"
    /\ failedPhase = "readiness"
    /\ exit_code = <<1>>

\* C17: for every max_wait_time >= 0, ping_interval >= 1 and sequence of probe
\* outcomes, wait_for_online once entered eventually ends with a verdict,
\* after at most 10 session probes and with liveness probes made only while
\* the elapsed time is below max_wait_time (hence a bounded number of them);
\* with max_wait_time = 0 no liveness probe is made and the verdict is
\* not-ready.
C17_WaitTerminates ==
    /\ (pc = "wfo_enter") ~> (verdict # None)
    /\ [](/\ wfo.sshProbes <= MaxSshRetries
          /\ ~wfo.latePing
          /\ wfo.pings >= 1 =>
               (wfo.pings - 1) * config.ping_interval < config.max_wait_time
          /\ config.max_wait_time = 0 =>
               /\ wfo.pings = 0
               /\ verdict \in {None, "timeout_ping"})

C17_Witness ==
    /\ config.max_wait_time = 0
    /\ verdict = "timeout_ping"
    /\ wfo.pings = 0
    /\ wfo.sshProbes = 0

C17_WitnessLongest ==
    /\ verdict = "timeout_session"
    /\ wfo.pings = config.max_wait_time
    /\ wfo.pings >= 2
    /\ wfo.sshProbes = MaxSshRetries

\* the state of the readiness state machine, read off the run so far
ReadinessState ==
    IF verdict = "ready" THEN "SESSION_READY"
    ELSE IF verdict = "timeout_ping" THEN "TIMEOUT_PING"
    ELSE IF verdict = "timeout_session" THEN "TIMEOUT_SESSION"
    ELSE IF wfo.pingOk THEN "PINGABLE"
    ELSE IF calls.wol > 0 THEN "WAKING"
    ELSE "ASLEEP"

ForwardMoves ==
    {<<"ASLEEP", "WAKING">>, <<"WAKING", "PINGABLE">>,
     <<"WAKING", "TIMEOUT_PING">>, <<"PINGABLE", "SESSION_READY">>,
     <<"PINGABLE", "TIMEOUT_SESSION">>}

\* C18: the readiness state machine only moves forward (ASLEEP, WAKING,
\* PINGABLE, then SESSION_READY or a timeout terminal); no session probe is
\* made before a liveness probe has succeeded and the whole settle delay
\* ssh_ready_wait has elapsed since then, and no liveness probe is made after
\* the first successful one.
C18_ForwardOnly ==
    /\ [][ReadinessState' = ReadinessState
            \/ <<ReadinessState, ReadinessState'>> \in ForwardMoves]_vars
    /\ [](/\ ~wfo.sshBeforePing
          /\ ~wfo.pingAfterOk
          /\ ~wfo.sshAfterOk
          /\ wfo.sshProbes > 0 =>
               /\ wfo.pingOk /\ wfo.settles = 1
               /\ wfo.firstSshAt - wfo.pingOkAt >= config.ssh_ready_wait
          /\ pc \in {"ssh_check", "ssh_sleep"} => wfo.pingOk
          /\ pc \in {"ping_check", "ping_sleep"} => ~wfo.pingOk /\ wfo.sshProbes = 0)

C18_Witness ==
    /\ config.ssh_ready_wait > 0
    /\ wfo.pings >= 2
    /\ wfo.sshProbes >= 2
    /\ wfo.firstSshAt - wfo.pingOkAt = config.ssh_ready_wait
    /\ verdict = "ready"

\* C19: when the notification decision and the exit are reached, error_msg is
\* set if and only if success is false, and file_size is set only if the sync
\* succeeded in this run.
C19_OutcomeRecord ==
    pc \in {"notify", "exit", "done"} =>
        /\ error_msg # None <=> ~success
        /\ file_size # None => rsync.ok

C19_InterruptedAfterSuccess ==
    /\ pc = "done"
    /\ interruptedAt = "success_log"
    /\ success
    /\ error_msg = MsgInterrupt
    /\ exit_code = <<0>>

\* connect_ssh has been entered in this run
ConnectEntered == \E i \in 1..Len(trace) : trace[i] = "session_open"

\* C20: ssh_client is set exactly when connect_ssh has been entered in this
\* run, whether or not the connect succeeded, and is never reset; so the
\* cleanup invokes the underlying close once if connect_ssh was attempted
\* (also after a failed connect) and not at all in a run that failed or was
\* interrupted before the session open.
C20_HandleSetIffConnectEntered ==
    /\ [][ssh_client # None => ssh_client' = ssh_client]_vars
    /\ [](/\ ssh_client # None <=> ConnectEntered
          /\ calls.connect > 0 => ConnectEntered
          /\ pc \in {"notify", "exit", "done"} =>
               calls.client_close = IF ConnectEntered THEN 1 ELSE 0
          /\ pc \notin {"notify", "exit", "done"} => calls.client_close = 0)

C20_Witness ==
    /\ pc = "done"
    /\ failedPhase = "session_open"
    /\ ssh_client # None
    /\ calls.client_close = 1

C20_WitnessBeforeOpen ==
    /\ pc = "done"
    /\ interruptedAt = "ssh_sleep"
    /\ ssh_client = None
    /\ calls.close_ssh = 1
    /\ calls.client_close = 0

=============================================================================
